---- MODULE Spec2Model ----
(***************************************************************************)
(* Model of Main.py: the ray sensor (Car.cast_ray, Car.check_collision),   *)
(* the fuzzy steering controller (Car.setup_fuzzy_control,                 *)
(* Car.setup_distance, Car.fuzzy_logic_controller) and the per-frame       *)
(* Car.update driven by the main loop.                                     *)
(*                                                                         *)
(* Real numbers are held in fixed point.  Membership degrees are integers  *)
(* in 0..MuScale (MuScale stands for 1.0); points of the steering universe *)
(* are integers in units of 1/XScale degree.  With the triangles of        *)
(* Main.py every degree and every breakpoint is then an exact integer, so  *)
(* a centroid is an exact fraction num/den.                                *)
(***************************************************************************)
EXTENDS Integers, Sequences, FiniteSets, TLC

(* ------------------------- program constants -------------------------- *)
RAYS == 7
SPREAD == 90
MAX_DISTANCE == 600
SPEED == 10

(* ------------------------- fixed-point scales ------------------------- *)
MuScale == 6 * 100
XScale == 2 * 10

None == 0 - 1

(* F applied to the value of v, with v evaluated once *)
With(v, F(_)) == CHOOSE r \in { F(x) : x \in {v} } : TRUE

Min(a, b) == IF a <= b THEN a ELSE b
Max(a, b) == IF a >= b THEN a ELSE b
SetMax(S) == CHOOSE m \in S : \A n \in S : n <= m
SetMin(S) == CHOOSE m \in S : \A n \in S : m <= n

(* fuzz.trimf(universe, [a, b, c]) at the point x, scaled by MuScale *)
Trimf(x, a, b, c) ==
    IF x = b THEN MuScale
    ELSE IF a /= b /\ a < x /\ x < b THEN (MuScale * (x - a)) \div (b - a)
    ELSE IF b /= c /\ b < x /\ x < c THEN (MuScale * (c - x)) \div (c - b)
    ELSE 0

(* Car.setup_distance: the three labels of every distance_i antecedent *)
DistanceTerms ==
    [close  |-> <<0, 0, 100>>,
     medium |-> <<50, 100, 400>>,
     far    |-> <<300, 600, 600>>]

(* np.arange(0, 601, 1) *)
DistanceUniverse == 0 .. MAX_DISTANCE

(* the seven labels of the steering consequent, abc in degrees *)
SteeringTerms ==
    [hard_left    |-> <<-90, -60, -30>>,
     left         |-> <<-45, -30, 0>>,
     slight_left  |-> <<-15, 0, 15>>,
     straight     |-> <<-10, 0, 10>>,
     slight_right |-> <<-15, 0, 15>>,
     right        |-> <<0, 30, 45>>,
     hard_right   |-> <<30, 60, 90>>]

SteeringLabels == DOMAIN SteeringTerms

(* np.arange(-90, 91, 1), in degrees *)
SteeringLo == -90
SteeringHi == 90

(* membership of the crisp distance d in a label of a distance antecedent *)
DistanceMu(label, d) ==
    Trimf(d, DistanceTerms[label][1], DistanceTerms[label][2], DistanceTerms[label][3])

(* membership of the point x (units of 1/XScale degree) in a steering label *)
SteeringMu(label, x) ==
    Trimf(x, XScale * SteeringTerms[label][1], XScale * SteeringTerms[label][2],
             XScale * SteeringTerms[label][3])

(* ------------------------------ rule base ----------------------------- *)
(* the loop body with the conclusions of the two sides exchanged *)
RulesOfRaySidesSwapped(i) ==
    LET angle_adjustment == (i - RAYS \div 2) * 15
    IN  IF i < RAYS \div 2
        THEN << [ray |-> i, ant |-> "close",  con |-> "left"],
                [ray |-> i, ant |-> "medium", con |-> "slight_left"] >>
        ELSE IF i > RAYS \div 2
        THEN << [ray |-> i, ant |-> "close",  con |-> "right"],
                [ray |-> i, ant |-> "medium", con |-> "slight_right"] >>
        ELSE << [ray |-> i, ant |-> "close",
                 con |-> IF angle_adjustment < 0 THEN "hard_left" ELSE "hard_right"] >>

(* the loop body with the center rule's test written  angle_adjustment <= 0 *)
RulesOfRayCenterLeft(i) ==
    LET angle_adjustment == (i - RAYS \div 2) * 15
    IN  IF i < RAYS \div 2
        THEN << [ray |-> i, ant |-> "close",  con |-> "right"],
                [ray |-> i, ant |-> "medium", con |-> "slight_right"] >>
        ELSE IF i > RAYS \div 2
        THEN << [ray |-> i, ant |-> "close",  con |-> "left"],
                [ray |-> i, ant |-> "medium", con |-> "slight_left"] >>
        ELSE << [ray |-> i, ant |-> "close",
                 con |-> IF angle_adjustment <= 0 THEN "hard_left" ELSE "hard_right"] >>

(* the loop body with the first test written  i <= RAYS // 2 *)
RulesOfRayCenterAsLeftRay(i) ==
    LET angle_adjustment == (i - RAYS \div 2) * 15
    IN  IF i <= RAYS \div 2
        THEN << [ray |-> i, ant |-> "close",  con |-> "right"],
                [ray |-> i, ant |-> "medium", con |-> "slight_right"] >>
        ELSE IF i > RAYS \div 2
        THEN << [ray |-> i, ant |-> "close",  con |-> "left"],
                [ray |-> i, ant |-> "medium", con |-> "slight_left"] >>
        ELSE << [ray |-> i, ant |-> "close",
                 con |-> IF angle_adjustment < 0 THEN "hard_left" ELSE "hard_right"] >>

(* The body of the loop of setup_fuzzy_control for ray index i *)
RulesOfRay(i) ==
    LET angle_adjustment == (i - RAYS \div 2) * 15
    IN  IF i < RAYS \div 2
        THEN << [ray |-> i, ant |-> "close",  con |-> "right"],
                [ray |-> i, ant |-> "medium", con |-> "slight_right"] >>
        ELSE IF i > RAYS \div 2
        THEN << [ray |-> i, ant |-> "close",  con |-> "left"],
                [ray |-> i, ant |-> "medium", con |-> "slight_left"] >>
        ELSE << [ray |-> i, ant |-> "close",
                 con |-> IF angle_adjustment < 0 THEN "hard_left" ELSE "hard_right"] >>

RECURSIVE RulesFrom(_)
RulesFrom(i) == IF i >= RAYS THEN << >> ELSE RulesOfRay(i) \o RulesFrom(i + 1)

(* the list handed to ctrl.ControlSystem *)
SetupRules == RulesFrom(0)

(* ------------------- ControlSystemSimulation.compute ------------------ *)
(* firing strength of a rule: the degree of its single antecedent term *)
Firing(rule, input) == DistanceMu(rule.ant, input[rule.ray])

(* accumulation (max) of the firings of the rules concluding a steering    *)
(* label; None for a label no rule concludes                               *)
CutOf(rls, input, label) ==
    LET fired == { Firing(rls[k], input) :
                     k \in { j \in 1 .. Len(rls) : rls[j].con = label } }
    IN  IF fired = {} THEN None ELSE SetMax(fired)

Cuts(rls, input) ==
    [hard_left    |-> CutOf(rls, input, "hard_left"),
     left         |-> CutOf(rls, input, "left"),
     slight_left  |-> CutOf(rls, input, "slight_left"),
     straight     |-> CutOf(rls, input, "straight"),
     slight_right |-> CutOf(rls, input, "slight_right"),
     right        |-> CutOf(rls, input, "right"),
     hard_right   |-> CutOf(rls, input, "hard_right")]

(* points where a label's triangle crosses its cut (interp_universe), in   *)
(* units of 1/XScale degree                                                *)
CrossingsOf(label, cut) ==
    LET a == XScale * SteeringTerms[label][1]
        b == XScale * SteeringTerms[label][2]
        c == XScale * SteeringTerms[label][3]
    IN  { a + (cut * (b - a)) \div MuScale, c - (cut * (c - b)) \div MuScale }

AddedPoints(cuts) ==
    UNION { CrossingsOf(label, cuts[label]) :
              label \in { l \in SteeringLabels : cuts[l] /= None } }

(* a label's triangle at x clipped at its cut (np.minimum); nothing for a   *)
(* label without a cut, and a cut of 0 clips every point to 0              *)
Clipped(cuts, label, x) ==
    IF cuts[label] = None \/ cuts[label] = 0 THEN 0
    ELSE Min(cuts[label], SteeringMu(label, x))

(* the aggregated output membership at the point x: every label clipped at *)
(* its cut (min), the labels joined by max                                 *)
OutputMf(cuts, x) ==
    Max(Clipped(cuts, "hard_left", x),
    Max(Clipped(cuts, "left", x),
    Max(Clipped(cuts, "slight_left", x),
    Max(Clipped(cuts, "straight", x),
    Max(Clipped(cuts, "slight_right", x),
    Max(Clipped(cuts, "right", x),
        Clipped(cuts, "hard_right", x)))))))

RECURSIVE SortAsc(_)
SortAsc(S) == IF S = {} THEN << >>
              ELSE LET m == SetMin(S) IN <<m>> \o SortAsc(S \ {m})

(* the upsampled universe between the degrees lo and hi, ascending; the    *)
(* range is halved so that the recursion stays shallow                     *)
RECURSIVE UniverseBetween(_, _, _)
UniverseBetween(lo, hi, added) ==
    IF lo = hi THEN << XScale * lo >>
    ELSE IF lo + 1 = hi
    THEN << XScale * lo >>
         \o SortAsc({ p \in added : XScale * lo < p /\ p < XScale * hi })
         \o << XScale * hi >>
    ELSE LET mid == (lo + hi) \div 2
         IN  UniverseBetween(lo, mid, added) \o Tail(UniverseBetween(mid, hi, added))

(* defuzzify.centroid: sums of moment*area and of area over the segments   *)
(* i-1..i of the sampled output for lo <= i <= hi, multiplied by 6 to stay *)
(* in the integers.  A point x1 is split as XScale * k + r and the moment  *)
(* is accumulated as XScale * whole + part so that no sum leaves 32 bits.  *)
RECURSIVE CentroidSums(_, _, _, _)
CentroidSums(xs, ys, lo, hi) ==
    IF lo > hi THEN <<0, 0, 0>>
    ELSE IF lo = hi
    THEN LET x1 == xs[lo - 1]
             x2 == xs[lo]
             y1 == ys[lo - 1]
             y2 == ys[lo]
             h  == x2 - x1
             a6 == 3 * h * (y1 + y2)
         IN  << (x1 \div XScale) * a6,
                (x1 % XScale) * a6 + h * h * (2 * y2 + y1),
                a6 >>
    ELSE LET mid == (lo + hi) \div 2
             l   == CentroidSums(xs, ys, lo, mid)
             r   == CentroidSums(xs, ys, mid + 1, hi)
         IN  << l[1] + r[1], l[2] + r[2], l[3] + r[3] >>

(* mfx.sum() over the samples lo..hi *)
RECURSIVE SeqSum(_, _, _)
SeqSum(ys, lo, hi) ==
    IF lo > hi THEN 0
    ELSE IF lo = hi THEN ys[lo]
    ELSE LET mid == (lo + hi) \div 2
         IN  SeqSum(ys, lo, mid) + SeqSum(ys, mid + 1, hi)

(* the aggregated output membership sampled at xs[lo..hi] *)
RECURSIVE OutputSamples(_, _, _, _)
OutputSamples(cuts, xs, lo, hi) ==
    IF lo > hi THEN << >>
    ELSE IF lo = hi THEN << OutputMf(cuts, xs[lo]) >>
    ELSE LET mid == (lo + hi) \div 2
         IN  OutputSamples(cuts, xs, lo, mid) \o OutputSamples(cuts, xs, mid + 1, hi)

(* defuzz with the centroid measured from the first point of the universe  *)
(* instead of from 0                                                       *)
DefuzzSampledFromLeftEnd(xs, ys) ==
    IF SeqSum(ys, 1, Len(ys)) = 0
    THEN [kind |-> "error", whole |-> 0, frac |-> 0, den |-> 1]
    ELSE With(CentroidSums(xs, ys, 2, Len(xs)),
              LAMBDA s : [kind  |-> "value",
                          whole |-> s[1] + s[2] \div XScale - (xs[1] \div XScale) * s[3],
                          frac  |-> s[2] % XScale,
                          den   |-> s[3]])

(* defuzz on the upsampled universe xs with the samples ys *)
DefuzzSampled(xs, ys) ==
    IF SeqSum(ys, 1, Len(ys)) = 0
    THEN [kind |-> "error", whole |-> 0, frac |-> 0, den |-> 1]
    ELSE With(CentroidSums(xs, ys, 2, Len(xs)),
              LAMBDA s : [kind  |-> "value",
                          whole |-> s[1] + s[2] \div XScale,
                          frac  |-> s[2] % XScale,
                          den   |-> s[3]])

(* CrispValueCalculator.defuzz: the centroid, or the error raised when the *)
(* total area is zero.  The value is the fraction                          *)
(*     (XScale * whole + frac) / (XScale * den)   degrees,                 *)
(* with 0 <= frac < XScale and den > 0.                                    *)
Defuzz(cuts) ==
    With(UniverseBetween(SteeringLo, SteeringHi, AddedPoints(cuts)),
         LAMBDA xs : With(OutputSamples(cuts, xs, 1, Len(xs)),
                          LAMBDA ys : DefuzzSampled(xs, ys)))

(* self.steering.compute() on the inputs the simulation object holds *)
Compute(rls, input) ==
    IF \E i \in DOMAIN input : input[i] = None
    THEN [kind |-> "error", whole |-> 0, frac |-> 0, den |-> 1]
    ELSE With(Cuts(rls, input), LAMBDA cuts : Defuzz(cuts))

(* ------------------------------ geometry ------------------------------ *)
(* Angles are integers in units of 1/AngleScale degree, lengths and        *)
(* coordinates of points off the pixel grid are integers in units of       *)
(* 1/TrigScale pixel.                                                      *)
AngleScale == 10 * 10
TrigScale == 100 * 100
FullTurn == 360 * AngleScale

(* TrigScale * cos(d degrees) for d = 0 .. 90, rounded *)
CosTable ==
    << 10000,  9998,  9994,  9986,  9976,  9962,  9945,  9925,  9903,  9877,
        9848,  9816,  9781,  9744,  9703,  9659,  9613,  9563,  9511,  9455,
        9397,  9336,  9272,  9205,  9135,  9063,  8988,  8910,  8829,  8746,
        8660,  8572,  8480,  8387,  8290,  8192,  8090,  7986,  7880,  7771,
        7660,  7547,  7431,  7314,  7193,  7071,  6947,  6820,  6691,  6561,
        6428,  6293,  6157,  6018,  5878,  5736,  5592,  5446,  5299,  5150,
        5000,  4848,  4695,  4540,  4384,  4226,  4067,  3907,  3746,  3584,
        3420,  3256,  3090,  2924,  2756,  2588,  2419,  2250,  2079,  1908,
        1736,  1564,  1392,  1219,  1045,   872,   698,   523,   349,   175,
           0 >>

(* int(): truncation toward zero of a / b, b > 0 *)
TruncDiv(a, b) == IF a >= 0 THEN a \div b ELSE 0 - ((0 - a) \div b)

(* cosine of an angle of the first quadrant, interpolated between degrees *)
CosQ(a) ==
    LET d == a \div AngleScale
        f == a % AngleScale
    IN  IF f = 0 THEN CosTable[d + 1]
        ELSE CosTable[d + 1] + ((CosTable[d + 2] - CosTable[d + 1]) * f) \div AngleScale

(* TrigScale * math.cos(math.radians(a)) *)
Cos(a) ==
    LET m == a % FullTurn
    IN  IF m <= 90 * AngleScale THEN CosQ(m)
        ELSE IF m <= 180 * AngleScale THEN 0 - CosQ(180 * AngleScale - m)
        ELSE IF m <= 270 * AngleScale THEN 0 - CosQ(m - 180 * AngleScale)
        ELSE CosQ(FullTurn - m)

(* TrigScale * math.sin(math.radians(a)) *)
Sin(a) == Cos(a - 90 * AngleScale)

(* ----------------------------- Car.cast_ray --------------------------- *)
(* A surface is its size, the half planes its track image paints white     *)
(* (a missing wall is None) and the pixels drawn over since the track was  *)
(* blitted.                                                                *)
InBounds(scr, p) ==
    0 <= p[1] /\ p[1] < scr.width /\ 0 <= p[2] /\ p[2] < scr.height

OnTrackWall(scr, p) ==
    \/ scr.left   /= None /\ p[1] <= scr.left
    \/ scr.right  /= None /\ p[1] >= scr.right
    \/ scr.top    /= None /\ p[2] <= scr.top
    \/ scr.bottom /= None /\ p[2] >= scr.bottom

(* screen.get_at(p) == (255, 255, 255, 255) *)
IsWhite(scr, p) == OnTrackWall(scr, p) /\ p \notin scr.painted

(* the direction of a ray: TrigScale * (cos, sin) of its angle *)
Direction(a) == << Cos(a), Sin(a) >>

(* (nx, ny) of the sample at the given distance; y is inverted *)
SamplePoint(start, dir, distance) ==
    << TruncDiv(start[1] + distance * dir[1], TrigScale),
       TruncDiv(start[2] - distance * dir[2], TrigScale) >>

(* the sample at this distance ends the loop: a white pixel, or a point    *)
(* outside the surface                                                     *)
EndsMarch(scr, start, dir, distance) ==
    With(SamplePoint(start, dir, distance),
         LAMBDA p : ~InBounds(scr, p) \/ IsWhite(scr, p))

(* the first distance in lo .. hi whose sample ends the loop, or None;    *)
(* the distances are tried a block at a time                               *)
MarchBlock == 4 * 8

RECURSIVE FirstEnd(_, _, _, _, _)
FirstEnd(scr, start, dir, lo, hi) ==
    IF lo > hi THEN None
    ELSE With({ d \in lo .. Min(hi, lo + MarchBlock - 1) : EndsMarch(scr, start, dir, d) },
              LAMBDA ends : IF ends /= {} THEN SetMin(ends)
                            ELSE FirstEnd(scr, start, dir, lo + MarchBlock, hi))

(* cast_ray with the march started at distance 1 *)
CastRayFromOne(scr, start, a, max_distance) ==
    With(Direction(a),
         LAMBDA dir :
           With(FirstEnd(scr, start, dir, 1, max_distance - 1),
                LAMBDA d : IF d /= None /\ InBounds(scr, SamplePoint(start, dir, d))
                           THEN d
                           ELSE max_distance))

(* Car.cast_ray(screen, start_pos, angle, max_distance) *)
CastRay(scr, start, a, max_distance) ==
    With(Direction(a),
         LAMBDA dir :
           With(FirstEnd(scr, start, dir, 0, max_distance - 1),
                LAMBDA d : IF d /= None /\ InBounds(scr, SamplePoint(start, dir, d))
                           THEN d
                           ELSE max_distance))

(* -------------------------- Car.check_collision ----------------------- *)
(* ray_angle with the spread divided by RAYS instead of RAYS - 1 *)
RayAngleByCount(heading, i) ==
    heading - (AngleScale * SPREAD) \div 2 + ((AngleScale * SPREAD) \div RAYS) * i

(* ray_angle of ray i for a car heading `heading` *)
RayAngle(heading, i) ==
    heading - (AngleScale * SPREAD) \div 2 + ((AngleScale * SPREAD) \div (RAYS - 1)) * i

(* front_center: one step of length speed ahead of the rect's center *)
FrontCenter(c, heading, speed) ==
    << c[1] * TrigScale + speed * Cos(heading),
       c[2] * TrigScale - speed * Sin(heading) >>

(* pygame.draw.line from start to the end of the ray, as the pixels it     *)
(* takes from the white ones.  Every sample before the end of the ray was  *)
(* found not white, and a ray that found nothing ends off the surface or   *)
(* on a pixel that is not white, so only the pixel hit can change; the     *)
(* second pixel of the line's width is left out.                           *)
DrawLine(scr, start, a, distance) ==
    LET p == SamplePoint(start, Direction(a), distance)
    IN  IF InBounds(scr, p) /\ IsWhite(scr, p)
        THEN [scr EXCEPT !.painted = @ \cup {p}]
        ELSE scr

(* the loop of check_collision from ray i on: the surface, Car.distances   *)
(* and, ray by ray, the angle, the origin and the distance cast_ray found  *)
RECURSIVE CheckCollisionFrom(_, _, _, _, _, _)
CheckCollisionFrom(scr, c, heading, speed, dists, i) ==
    IF i >= RAYS
    THEN [scr |-> scr, dists |-> dists, angles |-> << >>, origins |-> << >>,
          found |-> << >>]
    ELSE LET ray_angle    == RayAngle(heading, i)
             front_center == FrontCenter(c, heading, speed)
         IN  With(CastRay(scr, front_center, ray_angle, MAX_DISTANCE),
                  LAMBDA distance :
                    With(CheckCollisionFrom(DrawLine(scr, front_center, ray_angle, distance),
                                            c, heading, speed,
                                            [dists EXCEPT ![i] = distance], i + 1),
                         LAMBDA rest :
                           [rest EXCEPT !.angles  = <<ray_angle>> \o @,
                                        !.origins = <<front_center>> \o @,
                                        !.found   = <<distance>> \o @]))

CheckCollision(scr, c, heading, speed, dists) ==
    CheckCollisionFrom(scr, c, heading, speed, dists, 0)

(* ----------------------- Car.fuzzy_logic_controller ------------------- *)
PyLen(f) == Cardinality(DOMAIN f)

(* input['distance_i'] = value: the value is clipped to the universe *)
ClipToUniverse(d) == Min(Max(d, 0), MAX_DISTANCE)

(* the loop writing an input only where the simulation holds none yet *)
RECURSIVE SetInputsOnce(_, _, _)
SetInputsOnce(input, dists, i) ==
    IF i >= Cardinality(DOMAIN dists) THEN [input |-> input, raised |-> FALSE]
    ELSE IF i \notin DOMAIN input THEN [input |-> input, raised |-> TRUE]
    ELSE SetInputsOnce([input EXCEPT ![i] = IF @ = None
                                            THEN Min(Max(dists[i], 0), MAX_DISTANCE)
                                            ELSE @],
                       dists, i + 1)

(* the loop over enumerate(self.distances) from index i on; an index with  *)
(* no antecedent distance_i raises, the inputs set before it stay set      *)
RECURSIVE SetInputs(_, _, _)
SetInputs(input, dists, i) ==
    IF i >= PyLen(dists) THEN [input |-> input, raised |-> FALSE]
    ELSE IF i \notin DOMAIN input THEN [input |-> input, raised |-> TRUE]
    ELSE SetInputs([input EXCEPT ![i] = ClipToUniverse(dists[i])], dists, i + 1)

NoValue == [kind |-> "none", whole |-> 0, frac |-> 0, den |-> 1]
Raised  == [kind |-> "error", whole |-> 0, frac |-> 0, den |-> 1]

(* the whole call: the simulation's inputs after it, its output, and what  *)
(* the call returns (kind "error": an exception left the call)             *)
FuzzyLogicController(rls, input, output, dists, speed) ==
    LET set == SetInputs(input, dists, 0)
    IN  IF set.raised
        THEN [input |-> set.input, output |-> output, steering |-> Raised, speed |-> speed]
        ELSE With(Compute(rls, set.input),
                  LAMBDA out : [input    |-> set.input,
                                output   |-> IF out.kind = "value" THEN out ELSE output,
                                steering |-> out,
                                speed    |-> speed])

(* ------------------------------- state -------------------------------- *)
VARIABLES
    angle,       \* Car.angle, in units of 1/AngleScale degree
    center,      \* Car.rect.center, <<x, y>>
    autopilot,   \* Car.autopilot
    distances,   \* Car.distances
    rules,       \* Car.steering_ctrl: the rule list
    simInput,    \* Car.steering.input: distance_i |-> value, None before the first set
    simOutput,   \* Car.steering.output['steering']
    status,      \* "running", "raised" once an exception left a call
    ret,         \* the last fuzzy_logic_controller call: the distances read, the pair returned
    calls,       \* number of controller calls made
    first,       \* the first controller call, as ret
    prev,        \* the controller call before the last one, as ret
    screen,      \* the display surface as Car.update leaves it
    frame,       \* iterations of the main loop so far
    rays,        \* the rays of the last check_collision: pose, angles, origins
    measuredAt,  \* the frame in which each entry of Car.distances was written
    probe,       \* arguments of a cast_ray call made by a test driver
    probeRet     \* what that call returned, None before it

carVars == <<angle, center, autopilot, distances, rules, simInput, simOutput,
             status, ret, calls, first, prev>>
loopVars == <<screen, frame, rays, measuredAt>>
probeVars == <<probe, probeRet>>
vars == <<carVars, loopVars, probeVars>>

NoCall == [dists |-> << >>, steering |-> NoValue, speed |-> 0, frame |-> 0]

(* a surface of the given size showing the track with the given walls *)
Surface(w, h, l, r, t, b) ==
    [width |-> w, height |-> h, left |-> l, right |-> r, top |-> t, bottom |-> b,
     painted |-> {}]

NoRays == [heading |-> 0, center |-> <<0, 0>>, angles |-> << >>, origins |-> << >>,
           found |-> << >>]
NoProbe == [scr |-> Surface(0, 0, None, None, None, None), start |-> <<0, 0>>,
            a |-> 0, max_distance |-> 0]

(* nothing of the main loop or of a cast_ray driver has happened *)
LoopIdle(scr) ==
    /\ screen = scr
    /\ frame = 0
    /\ rays = NoRays
    /\ measuredAt = [i \in 0 .. RAYS - 1 |-> 0]

ProbeIdle == probe = NoProbe /\ probeRet = None

(* the fields of a Car built by Car.__init__ at pos, with dists stored in  *)
(* Car.distances                                                           *)
CarFields(pos, dists) ==
    /\ angle = 0
    /\ center = pos
    /\ autopilot = FALSE
    /\ distances = dists
    /\ rules = SetupRules
    /\ simInput = [i \in 0 .. RAYS - 1 |-> None]
    /\ simOutput = NoValue
    /\ status = "running"
    /\ ret = NoCall
    /\ calls = 0
    /\ first = NoCall
    /\ prev = NoCall

(* --------------------- controller under a test driver ------------------ *)
MaxObstructed == 2
MaxCalls == 3

(* representative distances: only close, close and medium, only medium *)
NearValues == {10, 75, 250}

AllFar == [i \in 0 .. RAYS - 1 |-> MAX_DISTANCE]

(* the distance vectors with at most MaxObstructed rays nearer than the    *)
(* maximum range                                                           *)
InputVectors ==
    { v \in [0 .. RAYS - 1 -> NearValues \cup {MAX_DISTANCE}] :
        Cardinality({ i \in 0 .. RAYS - 1 : v[i] /= MAX_DISTANCE }) <= MaxObstructed }

(* a Car whose distances the driver has set to a valid vector *)
InitCtl ==
    /\ \E v \in InputVectors : CarFields(<<0, 0>>, v)
    /\ LoopIdle(NoProbe.scr)
    /\ ProbeIdle

(* one call of Car.fuzzy_logic_controller *)
Decide ==
    /\ status = "running"
    /\ calls < MaxCalls
    /\ \E r \in {FuzzyLogicController(rules, simInput, simOutput, distances, SPEED)} :
           /\ simInput' = r.input
           /\ simOutput' = r.output
           /\ ret' = [dists |-> distances, steering |-> r.steering, speed |-> r.speed,
                       frame |-> frame]
           /\ first' = IF calls = 0 THEN ret' ELSE first
           /\ prev' = ret
           /\ status' = IF r.steering.kind = "error" THEN "raised" ELSE "running"
    /\ calls' = calls + 1
    /\ UNCHANGED <<angle, center, autopilot, distances, rules, loopVars, probeVars>>

NextCtl == Decide

SpecCtl == InitCtl /\ [][NextCtl]_vars

(* the vector with the single ray i at distance d and every other ray at   *)
(* the maximum range                                                       *)
OneNear(i, d) == [j \in 0 .. RAYS - 1 |-> IF j = i THEN d ELSE MAX_DISTANCE]

ProbeVectors == { OneNear(i, d) : i \in {0, 3, 6}, d \in {10, 250} }

(* vectors one entry short and one entry long *)
MisshapenVectors ==
    { [j \in 0 .. n - 1 |-> d] : n \in {RAYS - 1, RAYS + 1}, d \in {10, MAX_DISTANCE} }

(* the driver stores a vector in Car.distances *)
Sense(v) ==
    /\ status = "running"
    /\ calls < MaxCalls
    /\ distances /= v
    /\ distances' = v
    /\ UNCHANGED <<angle, center, autopilot, rules, simInput, simOutput, status,
                   ret, calls, first, prev, loopVars, probeVars>>

(* a Car as constructed: Car.distances is [0] * RAYS *)
InitCar ==
    /\ CarFields(<<0, 0>>, [i \in 0 .. RAYS - 1 |-> 0])
    /\ LoopIdle(NoProbe.scr)
    /\ ProbeIdle

SenseValid == \E v \in ProbeVectors : Sense(v)

NextRepeat == SenseValid \/ Decide

SpecRepeat == InitCar /\ [][NextRepeat]_vars

SenseAny == \E v \in ProbeVectors \cup MisshapenVectors : Sense(v)

NextShape == SenseAny \/ Decide

SpecShape == InitCar /\ [][NextShape]_vars

(* ----------------------- cast_ray under a test driver ------------------ *)
FieldSize == 5
MaxRange == 6

ProbeSurfaces ==
    { [Surface(FieldSize, FieldSize - 1, l, r, t, None) EXCEPT !.painted = holes] :
        l \in {None, 0}, r \in {None, FieldSize - 1}, t \in {None, 0},
        holes \in {{}, {<<FieldSize - 1, 1>>, <<0, 2>>}} }

ProbeStarts ==
    { <<x * TrigScale + off, y * TrigScale + off>> :
        x \in -1 .. 2, y \in 0 .. 2, off \in {0, TrigScale \div 2} }

ProbeAngles == { d * AngleScale : d \in {0, 30, 45, 90, 135, 180, 225, 270, 315} }

ProbeRanges == {0, 1, 3, MaxRange}

InitRay ==
    /\ CarFields(<<0, 0>>, [i \in 0 .. RAYS - 1 |-> 0])
    /\ LoopIdle(NoProbe.scr)
    /\ probe \in [scr : ProbeSurfaces, start : ProbeStarts, a : ProbeAngles,
                  max_distance : ProbeRanges]
    /\ probeRet = None

(* the driver calls Car.cast_ray *)
CastProbe ==
    /\ probeRet = None
    /\ probeRet' = CastRay(probe.scr, probe.start, probe.a, probe.max_distance)
    /\ UNCHANGED <<carVars, loopVars, probe>>

NextRay == CastProbe

SpecRay == InitRay /\ [][NextRay]_vars

(* ------------------------ Car.update, main loop ------------------------ *)
WIDTH == 1000
HEIGHT == 800
MaxFrames == 3
WallGap == 40

(* the display with a track whose walls stand WallGap pixels from the      *)
(* center of the window, on the sides chosen                               *)
TrackSurface(l, r, t, b) ==
    Surface(WIDTH, HEIGHT,
            IF l THEN WIDTH \div 2 - WallGap ELSE None,
            IF r THEN WIDTH \div 2 + WallGap ELSE None,
            IF t THEN HEIGHT \div 2 - WallGap ELSE None,
            IF b THEN HEIGHT \div 2 + WallGap ELSE None)

Tracks ==
    { TrackSurface(TRUE, TRUE, TRUE, TRUE),      \* closed box
      TrackSurface(FALSE, FALSE, TRUE, TRUE),    \* corridor along the heading
      TrackSurface(FALSE, TRUE, TRUE, FALSE),    \* walls ahead and on the left hand
      TrackSurface(FALSE, FALSE, FALSE, FALSE) } \* open field

(* car = Car(scaled_car, (width // 2, height // 2)) on some track *)
Init ==
    /\ CarFields(<<WIDTH \div 2, HEIGHT \div 2>>, [i \in 0 .. RAYS - 1 |-> 0])
    /\ \E scr \in Tracks : LoopIdle(scr)
    /\ ProbeIdle

(* a steering value in units of 1/AngleScale degree, truncated *)
ToAngle(s) ==
    AngleScale * (s.whole \div s.den) + (AngleScale * (s.whole % s.den)) \div s.den

(* rect.x += v * cos(angle); rect.y -= v * sin(angle): Rect keeps integers *)
(* and the rect's coordinates are not negative here, so the center moves   *)
(* by the floor of each term                                               *)
Moved(c, a, v) ==
    << c[1] + (v * Cos(a)) \div TrigScale, c[2] + (0 - v * Sin(a)) \div TrigScale >>

(* the manual branch of update: the new angle and center *)
ManualStep(a, c, speed, left, right, up, down) ==
    LET a1 == IF left THEN a + 5 * AngleScale ELSE a
        a2 == IF right THEN a1 - 5 * AngleScale ELSE a1
        c1 == IF up THEN Moved(c, a2, speed) ELSE c
        c2 == IF down THEN Moved(c1, a2, 0 - speed) ELSE c1
    IN  [angle |-> a2, center |-> c2]

(* the autopilot branch with the two calls in the other order: the         *)
(* controller reads Car.distances before check_collision writes them       *)
AutopilotStepDecideFirst(scr, a, c, speed, dists, rls, input, output) ==
    With(CheckCollision(scr, c, a, speed, dists),
         LAMBDA cc :
           With(FuzzyLogicController(rls, input, output, dists, speed),
                LAMBDA r :
                  LET raised == r.steering.kind = "error"
                      a1     == IF raised THEN a ELSE a + ToAngle(r.steering)
                  IN  [angle  |-> a1,
                       center |-> IF raised THEN c ELSE Moved(c, a1, r.speed),
                       dists  |-> cc.dists,
                       read   |-> dists,
                       scr    |-> cc.scr,
                       rays   |-> [heading |-> a, center |-> c,
                                   angles |-> cc.angles, origins |-> cc.origins,
                                   found |-> cc.found],
                       sim    |-> r]))

(* the autopilot branch of update on the freshly blitted surface scr: the  *)
(* rays are cast, then the controller is called on Car.distances           *)
AutopilotStep(scr, a, c, speed, dists, rls, input, output) ==
    With(CheckCollision(scr, c, a, speed, dists),
         LAMBDA cc :
           With(FuzzyLogicController(rls, input, output, cc.dists, speed),
                LAMBDA r :
                  LET raised == r.steering.kind = "error"
                      a1     == IF raised THEN a ELSE a + ToAngle(r.steering)
                  IN  [angle  |-> a1,
                       center |-> IF raised THEN c ELSE Moved(c, a1, r.speed),
                       dists  |-> cc.dists,
                       read   |-> cc.dists,
                       scr    |-> cc.scr,
                       rays   |-> [heading |-> a, center |-> c,
                                   angles |-> cc.angles, origins |-> cc.origins,
                                   found |-> cc.found],
                       sim    |-> r]))

(* one iteration of the main loop with the given keys held, ending with   *)
(* the autopilot off: the window is filled and the track blitted, then     *)
(* car.update() takes the manual branch                                    *)
ManualUpdate(space, left, right, up, down) ==
    /\ status = "running"
    /\ frame < MaxFrames
    /\ frame' = frame + 1
    /\ autopilot' = IF space THEN ~autopilot ELSE autopilot
    /\ ~autopilot'
    /\ \E m \in {ManualStep(angle, center, SPEED, left, right, up, down)} :
          angle' = m.angle /\ center' = m.center
    /\ screen' = [screen EXCEPT !.painted = {}]
    /\ UNCHANGED <<distances, rules, simInput, simOutput, status, ret, calls, first,
                   prev, rays, measuredAt, probeVars>>

(* the same with the autopilot on after SPACE is read; the arrow keys are  *)
(* not read in this branch                                                 *)
AutopilotUpdate(space) ==
    /\ status = "running"
    /\ frame < MaxFrames
    /\ frame' = frame + 1
    /\ autopilot' = IF space THEN ~autopilot ELSE autopilot
    /\ autopilot'
    /\ \E s \in {AutopilotStep([screen EXCEPT !.painted = {}], angle, center, SPEED,
                               distances, rules, simInput, simOutput)} :
          /\ angle' = s.angle
          /\ center' = s.center
          /\ distances' = s.dists
          /\ measuredAt' = [i \in 0 .. RAYS - 1 |->
                               IF i < Len(s.rays.found) THEN frame' ELSE measuredAt[i]]
          /\ screen' = s.scr
          /\ rays' = s.rays
          /\ simInput' = s.sim.input
          /\ simOutput' = s.sim.output
          /\ ret' = [dists |-> s.read, steering |-> s.sim.steering,
                     speed |-> s.sim.speed, frame |-> frame']
          /\ first' = IF calls = 0 THEN ret' ELSE first
          /\ prev' = ret
          /\ calls' = calls + 1
          /\ status' = IF s.sim.steering.kind = "error" THEN "raised" ELSE "running"
    /\ UNCHANGED <<rules, probeVars>>

Next ==
    \/ \E space, left, right, up, down \in BOOLEAN :
           ManualUpdate(space, left, right, up, down)
    \/ \E space \in BOOLEAN : AutopilotUpdate(space)

Spec == Init /\ [][Next]_vars

(* ------------------------- reading a steering value -------------------- *)
IsValue(s) == s.kind = "value"
Positive(s) == IsValue(s) /\ (s.whole > 0 \/ (s.whole = 0 /\ s.frac > 0))
Negative(s) == IsValue(s) /\ s.whole < 0
EqualsDegrees(s, d) == IsValue(s) /\ s.whole = d * s.den /\ s.frac = 0
WithinDegrees(s, lo, hi) ==
    /\ IsValue(s)
    /\ lo * s.den <= s.whole
    /\ (s.whole < hi * s.den \/ (s.whole = hi * s.den /\ s.frac = 0))

Called == calls > 0

(* the distance d is close and not medium *)
PurelyClose(d) == DistanceMu("close", d) > 0 /\ DistanceMu("medium", d) = 0

(* ------------------------------- claims -------------------------------- *)

(* C2: when every ray distance is the maximum range, the controller call   *)
(* completes and returns the steering 0.                                   *)
C2_AllFarSteersStraight ==
    (Called /\ ret.dists = AllFar) => EqualsDegrees(ret.steering, 0)

C5_LeftObstacleTurnsRight ==
    \A i \in 0 .. RAYS \div 2 - 1 :
        (Called /\ PurelyClose(ret.dists[i]) /\ ret.dists = OneNear(i, ret.dists[i]))
        => /\ Positive(ret.steering)
           /\ \A l \in SteeringLabels :
                  (Cuts(rules, simInput)[l] /= None /\ Cuts(rules, simInput)[l] > 0)
                  <=> l = "right"

C5_Witness ==
    /\ Called
    /\ ret.dists = OneNear(0, 10)
    /\ Positive(ret.steering)

(* the centroid of one steering label alone, clipped at the cut *)
CentroidOfClipped(label, cut) ==
    Defuzz([l \in SteeringLabels |-> IF l = label THEN cut ELSE None])

(* C6: with only the center ray purely close and every other ray at the    *)
(* maximum range, the steering is the centroid of the "hard_right"         *)
(* triangle clipped at the center ray's "close" degree, which is +60       *)
(* degrees; it is never negative.                                          *)
C6_CenterObstacleHardRight ==
    LET c == RAYS \div 2
    IN  (Called /\ PurelyClose(ret.dists[c]) /\ ret.dists = OneNear(c, ret.dists[c]))
        => /\ ret.steering = CentroidOfClipped("hard_right", DistanceMu("close", ret.dists[c]))
           /\ EqualsDegrees(ret.steering, 60)
           /\ ~Negative(ret.steering)

C6_Witness ==
    /\ Called
    /\ ret.dists = OneNear(3, 10)
    /\ EqualsDegrees(ret.steering, 60)

RuleSet == { rules[k] : k \in 1 .. Len(rules) }

(* the rule base as the claim lists it, for the center index 3 of 7 rays *)
ClaimedRules ==
    { [ray |-> i, ant |-> "close",  con |-> "right"]        : i \in 0 .. 2 } \cup
    { [ray |-> i, ant |-> "medium", con |-> "slight_right"] : i \in 0 .. 2 } \cup
    { [ray |-> i, ant |-> "close",  con |-> "left"]         : i \in 4 .. 6 } \cup
    { [ray |-> i, ant |-> "medium", con |-> "slight_left"]  : i \in 4 .. 6 } \cup
    { [ray |-> 3, ant |-> "close",  con |-> "hard_right"] }

(* C9: the rule base holds exactly the 13 listed rules (close -> right and *)
(* medium -> slight_right on the left rays, close -> left and medium ->    *)
(* slight_left on the right rays, close -> hard_right on the center ray),  *)
(* none with a "far" antecedent or a "straight" or "hard_left" conclusion, *)
(* and evaluations leave it unchanged.                                     *)
C9_RuleBase ==
    /\ RuleSet = ClaimedRules
    /\ Len(rules) = 13
    /\ Cardinality(RuleSet) = 13
    /\ \A r \in RuleSet : r.ant /= "far" /\ r.con \notin {"straight", "hard_left"}

C9_Witness ==
    /\ calls >= 2
    /\ IsValue(ret.steering)
    /\ Len(rules) = 13

(* what a newly constructed controller returns for the vector v *)
FreshDecision(v) ==
    FuzzyLogicController(SetupRules, [i \in 0 .. RAYS - 1 |-> None], NoValue, v, SPEED)

SameReturn(a, b) == a.steering = b.steering /\ a.speed = b.speed

(* C4: two controller calls with the same distance vector return the same  *)
(* (steering, speed), whether made in a row or with other vectors          *)
(* evaluated in between, and a call returns what a newly constructed       *)
(* controller returns for its vector.                                      *)
C4_DecisionIgnoresHistory ==
    /\ (calls >= 2 /\ ret.dists = prev.dists) => SameReturn(ret, prev)
    /\ (calls >= 2 /\ ret.dists = first.dists) => SameReturn(ret, first)
    /\ Called => ret.steering = FreshDecision(ret.dists).steering
    /\ Called => ret.speed = FreshDecision(ret.dists).speed

C4_Witness ==
    /\ calls = 3
    /\ ret.dists = first.dists
    /\ prev.dists /= ret.dists
    /\ IsValue(prev.steering)
    /\ prev.steering /= ret.steering
    /\ SameReturn(ret, first)

(* C7: a controller call on a distance vector whose length is not RAYS     *)
(* fails with an error.                                                    *)
C7_WrongLengthRaises ==
    (Called /\ PyLen(ret.dists) /= RAYS) => ret.steering.kind = "error"

(* the sample of the probed ray at distance d is a white pixel of the      *)
(* surface, or is on the surface and not white                             *)
ProbeHit(d) ==
    LET p == SamplePoint(probe.start, Direction(probe.a), d)
    IN  InBounds(probe.scr, p) /\ IsWhite(probe.scr, p)

ProbeClear(d) ==
    LET p == SamplePoint(probe.start, Direction(probe.a), d)
    IN  InBounds(probe.scr, p) /\ ~IsWhite(probe.scr, p)

(* C1: cast_ray returns an integer d with 0 <= d <= R; a d below R is the  *)
(* first sample that is white, every sample before it being on the surface *)
(* and not white; R is returned exactly when no sample below R is white    *)
(* with every sample before it on the surface and not white.               *)
C1_CastRayFirstHit ==
    probeRet /= None =>
        /\ probeRet \in 0 .. probe.max_distance
        /\ probeRet < probe.max_distance =>
               ProbeHit(probeRet) /\ \A d \in 0 .. probeRet - 1 : ProbeClear(d)
        /\ probeRet = probe.max_distance =>
               ~\E d \in 0 .. probe.max_distance - 1 :
                    ProbeHit(d) /\ \A e \in 0 .. d - 1 : ProbeClear(e)

C1_Witness ==
    /\ probeRet /= None
    /\ probeRet > 1
    /\ probeRet < probe.max_distance
    /\ ProbeHit(probeRet)

(* C8: the rays of one check_collision are cast at the angles              *)
(* heading - SPREAD/2 + (SPREAD/(RAYS-1)) * i, so consecutive rays differ  *)
(* by the same step, ray i mirrors ray RAYS-1-i about the heading and the  *)
(* middle ray lies on the heading; all start at the same front point, one  *)
(* step of the car's speed ahead of its center along the heading.          *)
C8_RayGeometry ==
    rays /= NoRays =>
        /\ Len(rays.angles) = RAYS /\ Len(rays.origins) = RAYS
        /\ \A i \in 1 .. RAYS :
               2 * (RAYS - 1) * (rays.angles[i] - rays.heading)
                   = AngleScale * SPREAD * (2 * (i - 1) - (RAYS - 1))
        /\ \A i \in 1 .. RAYS - 1 :
               rays.angles[i + 1] - rays.angles[i] = rays.angles[2] - rays.angles[1]
        /\ \A i \in 1 .. RAYS :
               rays.angles[i] - rays.heading = rays.heading - rays.angles[RAYS + 1 - i]
        /\ rays.angles[RAYS \div 2 + 1] = rays.heading
        /\ \A i \in 1 .. RAYS :
               rays.origins[i] =
                   << rays.center[1] * TrigScale + SPEED * Cos(rays.heading),
                      rays.center[2] * TrigScale - SPEED * Sin(rays.heading) >>

C8_Witness ==
    /\ rays /= NoRays
    /\ rays.heading /= 0
    /\ rays.heading % (5 * AngleScale) /= 0
    /\ rays.angles[RAYS] - rays.angles[1] = SPREAD * AngleScale

(* the distances cast_ray returned in the last check_collision, indexed as *)
(* Car.distances                                                           *)
FoundVector == [i \in 0 .. RAYS - 1 |-> rays.found[i + 1]]

(* C10: a controller call is made only in a frame that runs the autopilot  *)
(* branch, and the vector it reads is the one check_collision measured in  *)
(* that same frame from the pose the car had when the frame began: every   *)
(* entry of Car.distances was written in that frame.                       *)
C10_DistancesMeasuredThisFrame ==
    [][ /\ calls' /= calls => (frame' = frame + 1 /\ autopilot')
        /\ (frame' = frame + 1 /\ autopilot') =>
              /\ calls' = calls + 1
              /\ ret'.frame = frame'
              /\ rays'.heading = angle /\ rays'.center = center
              /\ ret'.dists = FoundVector'
              /\ distances' = FoundVector'
              /\ \A i \in 0 .. RAYS - 1 : measuredAt'[i] = frame'
      ]_vars

C10_Witness ==
    /\ calls >= 2
    /\ ret.frame = frame
    /\ prev.frame < frame - 1
    /\ prev.dists /= ret.dists
    /\ ret.dists = FoundVector

====
